---- MODULE Spec2Model ----
(***************************************************************************)
(* AuthPilot backend (src/backend/server.py): the document understanding   *)
(* and retrieval pipeline.  The groups of state:                           *)
(*   - the case store, the document store and the four generation stages;  *)
(*   - the policy store, the chunk store and the indexing requests;        *)
(*   - search_policies as a function of a chunk store and its arguments;   *)
(*   - the text extractor as a function of a file;                         *)
(*   - the process-wide embedding model;                                   *)
(*   - the demo records written by the seed requests.                      *)
(*                                                                         *)
(* Text is modelled as `pad` prose characters (none of them a bracket)     *)
(* followed by a sequence `body` of lexical symbols, one symbol counting   *)
(* as one character; this keeps the program's own slice lengths (500, 200) *)
(* while the bodies stay short.                                            *)
(***************************************************************************)
EXTENDS Integers, Sequences, FiniteSets, TLC

VARIABLES
    cases,          \* db.cases: case id -> case document
    documents,      \* db.documents, in insertion order
    resp,           \* the HTTP response of the last pipeline request
    llm_calls,      \* generation-provider invocations made by the last request
    llm_out,        \* the provider's answer to the last request (a failure if it made no call)
    policies,       \* db.policies: policy id -> policy document (or absent)
    policy_chunks,  \* db.policy_chunks, in insertion order
    next_id,        \* source of fresh chunk ids (uuid4)
    n_uploads,      \* policy uploads started so far
    req,            \* per worker: the policy request in flight and its position
    index_log,      \* per policy: the completed indexing runs, oldest first
    srch,           \* search_policies: the call made and the list returned
    extr,           \* text extraction: the file given and what the extractor returned
    embedding_model,\* the module global embedding_model, and how many were constructed
    seed            \* POST /seed: the demo records of the store and the requests in flight

vars == <<cases, documents, resp, llm_calls, llm_out, policies, policy_chunks, next_id,
          n_uploads, req, index_log, srch, extr, embedding_model, seed>>

pipeline_vars == <<cases, documents, resp, llm_calls, llm_out>>
index_vars == <<policies, next_id, n_uploads, req, index_log>>

(***************************************************************************)
(* Bounds of the model.                                                    *)
(***************************************************************************)
MaxDocs == 1
MaxBody == 4
MaxRuns == 2
MaxParas == 2
MaxChunks == 2
MaxPages == 2
MaxSeeds == 3

(***************************************************************************)
(* Program constants.                                                      *)
(***************************************************************************)
RawResponseLimit == 500
NotesLimit == 200
DocFindLimit == 100
ChunkFindLimit == 1000
DefaultTopK == 5
PromptMatchLimit == 5
HeaderThreshold == 50
SectionLimit == 100
ChunkTextLimit == 2000
EmbedTextLimit == 1000
ParasPerPage == 10

Min(a, b) == IF a < b THEN a ELSE b

(***************************************************************************)
(* Text: str values.                                                       *)
(***************************************************************************)
Text(pad, body) == [pad |-> pad, body |-> body]

EmptyText == Text(0, <<>>)

TextLen(t) == t.pad + Len(t.body)

\* Python t[:n]
Slice(t, n) ==
    IF n <= t.pad
    THEN Text(n, <<>>)
    ELSE Text(t.pad, SubSeq(t.body, 1, Min(n - t.pad, Len(t.body))))

\* Python s[:n] on a list
Take(s, n) == SubSeq(s, 1, Min(n, Len(s)))

Keys == {"k", "citations_used", "requested_service", "denial_reasons",
         "denial_reason_category"}

Scalars == {"v", "e1", "e2", "e9"}

Symbols == {"{", "}", "[", "]", ",", "x"} \cup Keys \cup Scalars

FirstIndex(s, ch) ==
    IF \E i \in 1..Len(s) : s[i] = ch
    THEN CHOOSE i \in 1..Len(s) : s[i] = ch /\ \A j \in 1..(i - 1) : s[j] # ch
    ELSE 0

LastIndex(s, ch) ==
    IF \E i \in 1..Len(s) : s[i] = ch
    THEN CHOOSE i \in 1..Len(s) : s[i] = ch /\ \A j \in (i + 1)..Len(s) : s[j] # ch
    ELSE 0

NoMatch == <<>>

\* re.search(r'\{[\s\S]*\}', response) and re.search(r'\[[\s\S]*\]', response):
\* the leftmost opening bracket, then greedily to the last closing bracket.
\* The matched group, or NoMatch (a match holds at least the two brackets).
re_search(open, close, response) ==
    LET i == FirstIndex(response.body, open)
        j == LastIndex(response.body, close)
    IN  IF i > 0 /\ j > i THEN SubSeq(response.body, i, j) ELSE NoMatch

(***************************************************************************)
(* json.loads on a sequence of symbols.  ParseValue(s, i) is the position  *)
(* after the JSON value that starts at i, or 0 when none starts there.     *)
(***************************************************************************)
RECURSIVE ParseValue(_, _), ParseElems(_, _), ParseMembers(_, _)
ParseValue(s, i) ==
    IF i > Len(s) THEN 0
    ELSE IF s[i] \in Scalars THEN i + 1
    ELSE IF s[i] = "["
         THEN IF i + 1 <= Len(s) /\ s[i + 1] = "]" THEN i + 2 ELSE ParseElems(s, i + 1)
    ELSE IF s[i] = "{"
         THEN IF i + 1 <= Len(s) /\ s[i + 1] = "}" THEN i + 2 ELSE ParseMembers(s, i + 1)
    ELSE 0

ParseElems(s, i) ==
    LET j == ParseValue(s, i)
    IN  IF j = 0 \/ j > Len(s) THEN 0
        ELSE IF s[j] = "]" THEN j + 1
        ELSE IF s[j] = "," THEN ParseElems(s, j + 1)
        ELSE 0

ParseMembers(s, i) ==
    IF i > Len(s) \/ s[i] \notin Keys THEN 0
    ELSE LET j == ParseValue(s, i + 1)
         IN  IF j = 0 \/ j > Len(s) THEN 0
             ELSE IF s[j] = "}" THEN j + 1
             ELSE IF s[j] = "," THEN ParseMembers(s, j + 1)
             ELSE 0

\* json.loads(s): the value (kept as its symbols), or JSONDecodeError
json_loads(s) ==
    IF ParseValue(s, 1) = Len(s) + 1
    THEN [ok |-> TRUE, value |-> s]
    ELSE [ok |-> FALSE, value |-> <<>>]

\* The value of the last member named k of the JSON object s, scanning its
\* members from position i; acc when there is none.
RECURSIVE MemberValue(_, _, _, _)
MemberValue(s, i, k, acc) ==
    IF i > Len(s) \/ s[i] \notin Keys THEN acc
    ELSE LET j == ParseValue(s, i + 1)
             acc2 == IF s[i] = k /\ j > 0 THEN SubSeq(s, i + 1, j - 1) ELSE acc
         IN  IF j = 0 \/ j > Len(s) \/ s[j] # "," THEN acc2
             ELSE MemberValue(s, j + 1, k, acc2)

\* The elements of the JSON array s, scanning from position i.
RECURSIVE Elements(_, _)
Elements(s, i) ==
    LET j == ParseValue(s, i)
    IN  IF j = 0 \/ j > Len(s) THEN <<>>
        ELSE <<SubSeq(s, i, j - 1)>> \o (IF s[j] = "," THEN Elements(s, j + 1) ELSE <<>>)

\* A dict of the case store is a record: one parsed from JSON is [json |-> symbols],
\* one built by the code carries the code's own keys.  d.get(k, default):
dict_get(d, k, default) ==
    IF "json" \in DOMAIN d
    THEN LET v == MemberValue(d.json, 2, k, <<>>) IN IF v = <<>> THEN default ELSE v
    ELSE default

\* Python truth of a JSON value held as symbols: [] and {} are false.
Truthy(v) == v # <<>> /\ v # <<"[", "]">> /\ v # <<"{", "}">>

\* The list held under key k (its elements), [] when k is absent or no list.
list_get(d, k) ==
    LET v == dict_get(d, k, <<>>)
    IN  IF v # <<>> /\ v[1] = "[" THEN Elements(v, 2) ELSE <<>>

(***************************************************************************)
(* Embeddings and cosine similarity.  The encoder is an external model; it *)
(* is deterministic, and here it maps a text to one of four unit vectors   *)
(* of the plane (0, 90, 180, 270 degrees) chosen by the text's first word. *)
(* A text is a sequence of words.                                          *)
(***************************************************************************)
Embeddings == 0..3

WordDir(w) ==
    CASE w \in {"a", "A", "e1"} -> 0
      [] w \in {"b", "v"} -> 1
      [] w \in {"e2", "."} -> 2
      [] OTHER -> 3

compute_embedding(text) == IF text = <<>> THEN 3 ELSE WordDir(text[1])

\* sklearn cosine_similarity of two of the unit vectors, times 100
cosine_similarity(a, b) ==
    LET d == (a - b + 4) % 4
    IN  CASE d = 0 -> 100 [] d = 2 -> 0 - 100 [] OTHER -> 0

Scores == {100, 0, 0 - 100}

\* the module global: `instance` names the model it holds (0 is None), `built`
\* counts the SentenceTransformer objects constructed by this process
NoModel == [instance |-> 0, built |-> 0]

\* a get_embedding_model without the test for None
get_embedding_model_fresh(m) == [instance |-> m.built + 1, built |-> m.built + 1]

get_embedding_model(m) ==
    IF m.instance = 0 THEN [instance |-> m.built + 1, built |-> m.built + 1] ELSE m

(***************************************************************************)
(* MongoDB {'$regex': pattern, '$options': 'i'} on a field: an unanchored, *)
(* case-insensitive regular-expression search.  Strings are sequences of   *)
(* characters; of the regex metacharacters the model has ".", which        *)
(* matches any one character.                                              *)
(***************************************************************************)
Lower(c) == CASE c = "A" -> "a" [] c = "B" -> "b" [] OTHER -> c

MatchesAt(pattern, s, i) ==
    /\ i + Len(pattern) - 1 <= Len(s)
    /\ \A j \in 1..Len(pattern) :
          pattern[j] = "." \/ Lower(pattern[j]) = Lower(s[i + j - 1])

regex_i(pattern, s) == \E i \in 1..(Len(s) + 1) : MatchesAt(pattern, s, i)

\* the documents of `chunks` that db.policy_chunks.find(filter_query) returns
find_chunks(chunks, payer, state) ==
    LET ok(c) == /\ (payer # <<>> => regex_i(payer, c.payer))
                 /\ (state # <<>> => regex_i(state, c.state))
    IN  SelectSeq(chunks, ok)

\* list.sort(key=score, reverse=True): stable, by descending score
SortByScore(results) ==
    SelectSeq(results, LAMBDA r : r.score = 100)
        \o SelectSeq(results, LAMBDA r : r.score = 0)
        \o SelectSeq(results, LAMBDA r : r.score = 0 - 100)

\* search_policies(query, payer, state, top_k) over the chunk store `store`
\* a search that finds nothing
search_nothing(store, query, payer, state, top_k) == <<>>

search_policies(store, query, payer, state, top_k) ==
    LET chunks == Take(find_chunks(store, payer, state), ChunkFindLimit)
        query_embedding == compute_embedding(query)
        result(c) == [policy_id |-> c.policy_id, section |-> c.section, page |-> c.page,
                      excerpt_id |-> c.id, text |-> c.text,
                      score |-> cosine_similarity(query_embedding, c.embedding)]
        results == [i \in 1..Len(chunks) |-> result(chunks[i])]
    IN  IF chunks = <<>> THEN <<>> ELSE Take(SortByScore(results), top_k)

(***************************************************************************)
(* The generation stages.                                                  *)
(***************************************************************************)
CaseIds == {"c1", "c404"}

DocTypes == {"denial_letter", "clinical_notes"}

DocTexts == {EmptyText, Text(1, <<>>)}

\* What one await of the generation provider can produce: a text, or a failure.
Bodies ==
    { <<"{", "}">>,
      <<"{", "}", "x", "{", "}">>,
      <<"[", "v", "]">>,
      <<"{", "citations_used", "[", "e1", ",", "e9", "]", "}">> }

Responses ==
    {Text(0, b) : b \in Bodies} \cup {Text(RawResponseLimit + 1, <<>>)}

ProviderFailure == [ok |-> FALSE, text |-> EmptyText]

ProviderOutcomes == {[ok |-> TRUE, text |-> t] : t \in Responses} \cup {ProviderFailure}

Returned(v) == [raised |-> FALSE, value |-> v]

Raised == [raised |-> TRUE, value |-> [detail |-> "unhandled exception"]]

\* a call_llm that hands a provider failure on as the provider's (empty) text
call_llm_swallow(outcome) == Returned(outcome.text)

\* call_llm: the provider's text, or HTTPException(500) on any provider failure
call_llm(outcome) ==
    IF outcome.ok THEN Returned(outcome.text)
    ELSE [raised |-> TRUE, value |-> [detail |-> "LLM processing error"]]

\* extract_facts, the try block after the provider call
parse_extraction(response) ==
    LET json_match == re_search("{", "}", response)
    IN  IF json_match # NoMatch
        THEN LET v == json_loads(json_match)
             IN  IF v.ok THEN Returned([json |-> v.value])
                 ELSE Returned([error |-> "Invalid JSON in response",
                                raw_response |-> Slice(response, RawResponseLimit)])
        ELSE Returned([error |-> "Could not parse extraction",
                       raw_response |-> Slice(response, RawResponseLimit)])

\* parse_checklist without its except clause: a JSONDecodeError leaves the handler
parse_checklist_uncaught(response) ==
    LET json_match == re_search("[", "]", response)
    IN  IF json_match # NoMatch
        THEN LET v == json_loads(json_match)
             IN  IF v.ok THEN Returned([json |-> v.value]) ELSE Raised
        ELSE Returned([items |-> <<[item |-> "Unable to generate checklist",
                                    status |-> "Unknown",
                                    notes |-> Slice(response, NotesLimit)]>>])

\* analyze_denial, the try block after the provider call
parse_checklist(response) ==
    LET json_match == re_search("[", "]", response)
    IN  IF json_match # NoMatch
        THEN LET v == json_loads(json_match)
             IN  IF v.ok THEN Returned([json |-> v.value])
                 ELSE Returned([items |-> <<[item |-> "Parse error", status |-> "Unknown",
                                             notes |-> Slice(response, NotesLimit)]>>])
        ELSE Returned([items |-> <<[item |-> "Unable to generate checklist",
                                    status |-> "Unknown",
                                    notes |-> Slice(response, NotesLimit)]>>])

FallbackDraft(response) ==
    [reviewable |-> FALSE, appeal_letter |-> response,
     attachments_checklist |-> <<>>, citations_used |-> <<>>]

\* generate_appeal_draft, the try block after the provider call
parse_draft(response) ==
    LET json_match == re_search("{", "}", response)
    IN  IF json_match # NoMatch
        THEN LET v == json_loads(json_match)
             IN  IF v.ok THEN Returned([json |-> v.value])
                 ELSE Returned(FallbackDraft(response))
        ELSE Returned(FallbackDraft(response))

Reply(op, case_id, code, body) == [op |-> op, case_id |-> case_id, code |-> code, body |-> body]

NotFound == [detail |-> "Case not found"]

\* db.documents.find({'case_id': case_id}).to_list(100)
case_documents(case_id) ==
    Take(SelectSeq(documents, LAMBDA d : d.case_id = case_id), DocFindLimit)

\* last_text with the test of the document type left out
RECURSIVE last_text_any_type(_, _, _)
last_text_any_type(docs, type, acc) ==
    IF docs = <<>> THEN acc
    ELSE last_text_any_type(Tail(docs), type, Head(docs).extracted_text)

\* the loop of extract_facts: the text of the last document of the type, "" if none
RECURSIVE last_text(_, _, _)
last_text(docs, type, acc) ==
    IF docs = <<>> THEN acc
    ELSE last_text(Tail(docs), type,
                   IF Head(docs).type = type THEN Head(docs).extracted_text ELSE acc)

\* POST /cases/{case_id}/documents, with the text the extractor produced
upload_document(case_id, document_type, extracted_text) ==
    /\ Len(documents) < MaxDocs
    /\ llm_calls' = 0 /\ llm_out' = ProviderFailure
    /\ IF case_id \notin DOMAIN cases
       THEN /\ resp' = Reply("upload", case_id, 404, NotFound)
            /\ UNCHANGED <<cases, documents>>
       ELSE LET doc_record == [case_id |-> case_id, type |-> document_type,
                               extracted_text |-> extracted_text]
            IN  /\ documents' = Append(documents, doc_record)
                /\ resp' = Reply("upload", case_id, 200, doc_record)
                /\ UNCHANGED cases

\* POST /cases/{case_id}/extract (Stage 1)
extract_facts(case_id, outcome) ==
    IF case_id \notin DOMAIN cases
    THEN /\ resp' = Reply("extract", case_id, 404, NotFound)
         /\ llm_calls' = 0 /\ llm_out' = ProviderFailure
         /\ UNCHANGED <<cases, documents>>
    ELSE LET denial_text == last_text(case_documents(case_id), "denial_letter", EmptyText)
             response == call_llm(outcome)
             parsed == parse_extraction(response.value)
         IN  IF TextLen(denial_text) = 0
             THEN /\ resp' = Reply("extract", case_id, 400,
                                   [detail |-> "Denial letter required for extraction"])
                  /\ llm_calls' = 0 /\ llm_out' = ProviderFailure
                  /\ UNCHANGED <<cases, documents>>
             ELSE /\ llm_calls' = 1 /\ llm_out' = outcome
                  /\ UNCHANGED documents
                  /\ IF response.raised
                     THEN /\ resp' = Reply("extract", case_id, 500, response.value)
                          /\ UNCHANGED cases
                     ELSE IF parsed.raised
                     THEN /\ resp' = Reply("extract", case_id, 500, parsed.value)
                          /\ UNCHANGED cases
                     ELSE /\ cases' = [cases EXCEPT ![case_id].extracted_facts = parsed.value]
                          /\ resp' = Reply("extract", case_id, 200, parsed.value)

\* " ".join(query_parts)
RECURSIVE join(_)
join(parts) ==
    IF parts = <<>> THEN <<>>
    ELSE IF Len(parts) = 1 THEN parts[1]
    ELSE parts[1] \o <<" ">> \o join(Tail(parts))

\* a query builder whose fallback leaves the payer out
search_query_no_payer(case) ==
    LET parts == Take(list_get(case.extracted_facts, "denial_reasons"), 3)
    IN  IF parts # <<>> THEN join(parts) ELSE <<"coverage criteria">>

\* match_policies: the retrieval query built from the facts and the case
search_query(case) ==
    LET extracted_facts == case.extracted_facts
        service == dict_get(extracted_facts, "requested_service", <<>>)
        reasons == list_get(extracted_facts, "denial_reasons")
        query_parts == (IF Truthy(service) THEN <<service>> ELSE <<>>)
                           \o Take(reasons, 3)
                           \o [i \in 1..Len(case.cpt_codes) |-> <<case.cpt_codes[i]>>]
    IN  IF query_parts # <<>> THEN join(query_parts)
        ELSE case.payer \o <<" coverage criteria">>

\* search_policies: the embedding model after the call; the query is embedded
\* when the filters leave a chunk
search_model(m, store, payer, state) ==
    IF find_chunks(store, payer, state) # <<>> THEN get_embedding_model(m) ELSE m

\* POST /cases/{case_id}/match-policies (Stage 2)
match_policies(case_id) ==
    /\ llm_calls' = 0 /\ llm_out' = ProviderFailure
    /\ UNCHANGED documents
    /\ IF case_id \notin DOMAIN cases
       THEN /\ resp' = Reply("match-policies", case_id, 404, NotFound)
            /\ UNCHANGED <<cases, srch, embedding_model>>
       ELSE LET case == cases[case_id]
                matches == search_policies(policy_chunks, search_query(case),
                                           case.payer, case.state, DefaultTopK)
            IN  /\ cases' = [cases EXCEPT ![case_id].policy_matches = matches]
                /\ resp' = Reply("match-policies", case_id, 200, [policy_matches |-> matches])
                /\ srch' = [called |-> TRUE, query |-> search_query(case),
                            payer |-> case.payer, state |-> case.state,
                            top_k |-> DefaultTopK, out |-> matches]
                /\ embedding_model' =
                       search_model(embedding_model, policy_chunks, case.payer, case.state)

\* a Stage 3 that writes its analysis and clears the matches of Stage 2
analyze_denial_reset(case_id, outcome) ==
    /\ case_id \in DOMAIN cases
    /\ outcome.ok
    /\ UNCHANGED documents
    /\ llm_calls' = 1 /\ llm_out' = outcome
    /\ LET denial_analysis ==
               [denial_category |-> <<"unknown">>, denial_reasons |-> <<"[", "]">>,
                missing_docs_checklist |-> parse_checklist(outcome.text).value]
       IN  /\ cases' = [cases EXCEPT ![case_id].denial_analysis = denial_analysis,
                                     ![case_id].policy_matches = <<>>]
           /\ resp' = Reply("analyze", case_id, 200, denial_analysis)

\* POST /cases/{case_id}/analyze (Stage 3)
analyze_denial(case_id, outcome) ==
    /\ UNCHANGED documents
    /\ IF case_id \notin DOMAIN cases
       THEN /\ resp' = Reply("analyze", case_id, 404, NotFound)
            /\ llm_calls' = 0 /\ llm_out' = ProviderFailure
            /\ UNCHANGED cases
       ELSE LET extracted_facts == cases[case_id].extracted_facts
                response == call_llm(outcome)
                parsed == parse_checklist(response.value)
                denial_analysis ==
                    [denial_category |->
                         dict_get(extracted_facts, "denial_reason_category", <<"unknown">>),
                     denial_reasons |->
                         dict_get(extracted_facts, "denial_reasons", <<"[", "]">>),
                     missing_docs_checklist |-> parsed.value]
            IN  /\ llm_calls' = 1 /\ llm_out' = outcome
                /\ IF response.raised
                   THEN /\ resp' = Reply("analyze", case_id, 500, response.value)
                        /\ UNCHANGED cases
                   ELSE IF parsed.raised
                   THEN /\ resp' = Reply("analyze", case_id, 500, parsed.value)
                        /\ UNCHANGED cases
                   ELSE /\ cases' = [cases EXCEPT ![case_id].denial_analysis = denial_analysis]
                        /\ resp' = Reply("analyze", case_id, 200, denial_analysis)

\* a Stage 4 that leaves the status of a case that was already sent or decided
generate_appeal_draft_keep_sent(op, case_id, outcome) ==
    /\ case_id \in DOMAIN cases
    /\ outcome.ok
    /\ UNCHANGED documents
    /\ llm_calls' = 1 /\ llm_out' = outcome
    /\ LET draft == parse_draft(outcome.text).value
       IN  /\ cases' = [cases EXCEPT
                           ![case_id].generated_draft = draft,
                           ![case_id].status =
                               IF @ \in {"submitted", "won", "lost"} THEN @ ELSE "draft_appeal"]
           /\ resp' = Reply(op, case_id, 200, draft)

\* POST /cases/{case_id}/generate-draft (Stage 4); `op` names the route that ran it
generate_appeal_draft(op, case_id, outcome) ==
    /\ UNCHANGED documents
    /\ IF case_id \notin DOMAIN cases
       THEN /\ resp' = Reply(op, case_id, 404, NotFound)
            /\ llm_calls' = 0 /\ llm_out' = ProviderFailure
            /\ UNCHANGED cases
       ELSE LET response == call_llm(outcome)
                parsed == parse_draft(response.value)
            IN  /\ llm_calls' = 1 /\ llm_out' = outcome
                /\ IF response.raised
                   THEN /\ resp' = Reply(op, case_id, 500, response.value)
                        /\ UNCHANGED cases
                   ELSE IF parsed.raised
                   THEN /\ resp' = Reply(op, case_id, 500, parsed.value)
                        /\ UNCHANGED cases
                   ELSE /\ cases' = [cases EXCEPT ![case_id].generated_draft = parsed.value,
                                                  ![case_id].status = "draft_appeal"]
                        /\ resp' = Reply(op, case_id, 200, parsed.value)

\* a regenerate that runs the retrieval of Stage 2 again before it drafts
regenerate_draft_rematch(case_id, outcome) ==
    /\ case_id \in DOMAIN cases
    /\ outcome.ok
    /\ UNCHANGED documents
    /\ llm_calls' = 1 /\ llm_out' = outcome
    /\ LET case == cases[case_id]
           matches == search_policies(policy_chunks, search_query(case),
                                      case.payer, case.state, DefaultTopK)
           draft == parse_draft(outcome.text).value
       IN  /\ cases' = [cases EXCEPT ![case_id].policy_matches = matches,
                                     ![case_id].generated_draft = draft,
                                     ![case_id].status = "draft_appeal"]
           /\ resp' = Reply("regenerate", case_id, 200, draft)

\* POST /cases/{case_id}/regenerate
regenerate_draft(case_id, outcome) == generate_appeal_draft("regenerate", case_id, outcome)

\* POST /cases/{case_id}/mark-reviewed
mark_reviewed(case_id) ==
    /\ llm_calls' = 0 /\ llm_out' = ProviderFailure
    /\ UNCHANGED documents
    /\ IF case_id \notin DOMAIN cases
       THEN /\ resp' = Reply("mark-reviewed", case_id, 404, NotFound)
            /\ UNCHANGED cases
       ELSE LET case == cases[case_id]
                reviewed_case ==
                    [k \in DOMAIN case \cup {"reviewed"} |->
                         IF k = "reviewed" THEN TRUE ELSE case[k]]
            IN  /\ cases' = [cases EXCEPT ![case_id] = reviewed_case]
                /\ resp' = Reply("mark-reviewed", case_id, 200,
                                 [message |-> "Case marked as reviewed"])

\* PUT /cases/{case_id}: the fields of case_data that are not None are set on the
\* case, and the updated case is returned
update_case(case_id, case_data) ==
    /\ llm_calls' = 0 /\ llm_out' = ProviderFailure
    /\ UNCHANGED documents
    /\ IF case_id \notin DOMAIN cases
       THEN /\ resp' = Reply("update-case", case_id, 404, NotFound)
            /\ UNCHANGED cases
       ELSE LET updated_case ==
                    [k \in DOMAIN cases[case_id] |->
                         IF k \in DOMAIN case_data THEN case_data[k] ELSE cases[case_id][k]]
            IN  /\ cases' = [cases EXCEPT ![case_id] = updated_case]
                /\ resp' = Reply("update-case", case_id, 200, updated_case)

(***************************************************************************)
(* Spec: one case of a payer and the requests of the pipeline on it, over  *)
(* a chunk store that holds two indexed policies.                          *)
(***************************************************************************)
NoDraft == [none |-> TRUE]

EmptyDict == [json |-> <<"{", "}">>]

\* create_case: the case document as inserted
NewCase(payer, state, cpt_codes) ==
    [payer |-> payer, state |-> state, cpt_codes |-> cpt_codes,
     status |-> "new_denial", extracted_facts |-> EmptyDict, policy_matches |-> <<>>,
     denial_analysis |-> EmptyDict, generated_draft |-> NoDraft]

Chunk(id, policy_id, payer, state, section, page, text, embedding) ==
    [id |-> id, policy_id |-> policy_id, payer |-> payer, state |-> state,
     section |-> section, page |-> page, text |-> text, embedding |-> embedding]

(***************************************************************************)
(* Policy content.  A paragraph (one piece of content.split('\n\n')) is    *)
(* its leading words, its length and the length of its strip().            *)
(***************************************************************************)
Para(words, len, slen) == [words |-> words, len |-> len, slen |-> slen]

\* Python para[:n] and para.strip()
ParaSlice(para, n) == [words |-> Take(para.words, n), len |-> Min(para.len, n)]
ParaStrip(para) == [words |-> para.words, len |-> para.slen]

Header == Para(<<"A">>, HeaderThreshold - 1, HeaderThreshold - 1)
BodyA == Para(<<"a">>, HeaderThreshold, HeaderThreshold)
BodyB == Para(<<"b">>, ChunkTextLimit + 1, ChunkTextLimit + 1)

\* the paragraphs an uploaded file is made of
ParaKinds == {Header, BodyB}

Contents == UNION {[1..n -> ParaKinds] : n \in 1..MaxParas}

General == [words |-> <<"General">>, len |-> 7]

\* a chunking loop in which a short paragraph is skipped and sets no label
RECURSIVE chunk_loop_no_label(_, _, _, _, _, _)
chunk_loop_no_label(policy, paragraphs, i, current_section, page_num, id) ==
    IF i > Len(paragraphs) THEN <<>>
    ELSE LET para == paragraphs[i]
         IN  IF para.slen < HeaderThreshold
             THEN chunk_loop_no_label(policy, paragraphs, i + 1, current_section,
                                      page_num, id)
             ELSE <<Chunk(id, policy.id, policy.payer, policy.state, current_section,
                          page_num, ParaSlice(para, ChunkTextLimit),
                          compute_embedding(ParaSlice(para, EmbedTextLimit).words))>>
                      \o chunk_loop_no_label(policy, paragraphs, i + 1, current_section,
                                             page_num, id + 1)

\* index_policy_content, the loop over the paragraphs from the i-th on (i counts
\* from 1, enumerate from 0); chunk ids are fresh, taken from id on
RECURSIVE chunk_loop(_, _, _, _, _, _)
chunk_loop(policy, paragraphs, i, current_section, page_num, id) ==
    IF i > Len(paragraphs) THEN <<>>
    ELSE LET para == paragraphs[i]
             page == IF i - 1 > 0 /\ (i - 1) % ParasPerPage = 0
                     THEN page_num + 1 ELSE page_num
         IN  IF para.slen < HeaderThreshold
             THEN chunk_loop(policy, paragraphs, i + 1,
                             IF para.slen > 0
                             THEN ParaSlice(ParaStrip(para), SectionLimit)
                             ELSE current_section,
                             page_num, id)
             ELSE <<Chunk(id, policy.id, policy.payer, policy.state, current_section, page,
                          ParaSlice(para, ChunkTextLimit),
                          compute_embedding(ParaSlice(para, EmbedTextLimit).words))>>
                      \o chunk_loop(policy, paragraphs, i + 1, current_section, page, id + 1)

\* index_policy_content: the chunks built from content
build_chunks(policy, content, id) == chunk_loop(policy, content, 1, General, 1, id)

\* delete_chunks that removes nothing (a reindex that merges)
delete_nothing(chunks, policy_id) == chunks

\* db.policy_chunks.delete_many({'policy_id': policy_id})
delete_chunks(chunks, policy_id) == SelectSeq(chunks, LAMBDA c : c.policy_id # policy_id)

Policy(id, payer, state, content) ==
    [id |-> id, exists |-> TRUE, payer |-> payer, state |-> state, content |-> content]

PolicyIds == {"p1", "p2"}

\* the policies of the organization, as created with their content
CreatedPolicies ==
    [p \in PolicyIds |->
        IF p = "p1" THEN Policy("p1", <<"a", "b">>, <<"c">>, <<BodyA, BodyB>>)
        ELSE Policy("p2", <<"b">>, <<"c">>, <<BodyB>>)]

\* the chunk store after create_policy has indexed them
IndexedChunks ==
    build_chunks(CreatedPolicies["p1"], CreatedPolicies["p1"].content, 1)
        \o build_chunks(CreatedPolicies["p2"], CreatedPolicies["p2"].content, 3)

NoResponse == Reply("none", "c1", 0, [detail |-> "no request yet"])

Workers == {1, 2}

Idle == [pc |-> "idle", status |-> 0]

NoSearch == [called |-> FALSE]

NoExtraction == [done |-> FALSE]

\* no demo record in the store and no seed request in flight
NotSeeded ==
    [users |-> 0, organizations |-> 0, policies |-> 0, cases |-> 0, templates |-> 0,
     pc |-> [w \in Workers |-> "idle"], started |-> 0, replies |-> 0]

Init ==
    /\ cases = [c \in {"c1"} |-> NewCase(<<"a">>, <<"c">>, <<>>)]
    /\ documents = <<>>
    /\ resp = NoResponse
    /\ llm_calls = 0
    /\ llm_out = ProviderFailure
    /\ policies = CreatedPolicies
    /\ policy_chunks = IndexedChunks
    /\ next_id = 4
    /\ n_uploads = 0
    /\ req = [w \in Workers |-> Idle]
    /\ index_log = [p \in PolicyIds |-> <<>>]
    /\ srch = NoSearch
    /\ extr = NoExtraction
    /\ embedding_model = NoModel
    /\ seed = NotSeeded

\* a pipeline request leaves the policy side alone
PipelineFrame ==
    UNCHANGED <<policies, policy_chunks, next_id, n_uploads, req, index_log, srch, extr,
                embedding_model, seed>>

\* Stage 2 reads the chunk store and writes none of the policy side
StoreFrame ==
    UNCHANGED <<policies, policy_chunks, next_id, n_uploads, req, index_log, extr, seed>>

UploadDocument ==
    /\ \E c \in CaseIds, t \in DocTypes, x \in DocTexts : upload_document(c, t, x)
    /\ PipelineFrame

ExtractFacts ==
    /\ \E c \in CaseIds, o \in ProviderOutcomes : extract_facts(c, o)
    /\ PipelineFrame

MatchPolicies ==
    /\ \E c \in CaseIds : match_policies(c)
    /\ StoreFrame

AnalyzeDenial ==
    /\ \E c \in CaseIds, o \in ProviderOutcomes : analyze_denial(c, o)
    /\ PipelineFrame

GenerateAppealDraft ==
    /\ \E c \in CaseIds, o \in ProviderOutcomes : generate_appeal_draft("generate-draft", c, o)
    /\ PipelineFrame

RegenerateDraft ==
    /\ \E c \in CaseIds, o \in ProviderOutcomes : regenerate_draft(c, o)
    /\ PipelineFrame

Next ==
    \/ UploadDocument
    \/ ExtractFacts
    \/ MatchPolicies
    \/ AnalyzeDenial
    \/ GenerateAppealDraft
    \/ RegenerateDraft

Spec == Init /\ [][Next]_vars

(***************************************************************************)
(* SpecRecover: one generation stage run on a case that has its denial     *)
(* letter, over every provider text of up to MaxBody symbols.              *)
(***************************************************************************)
RecoverSymbols == {"{", "}", "[", "]", ",", "x", "k", "v"}

AllBodies == UNION {[1..n -> RecoverSymbols] : n \in 0..MaxBody}

AllOutcomes == {[ok |-> TRUE, text |-> Text(0, b)] : b \in AllBodies} \cup ProviderOutcomes

InitRecover ==
    /\ cases = [c \in {"c1"} |-> NewCase(<<"a">>, <<"c">>, <<>>)]
    /\ documents = <<[case_id |-> "c1", type |-> "denial_letter",
                      extracted_text |-> Text(1, <<>>)]>>
    /\ resp = NoResponse
    /\ llm_calls = 0
    /\ llm_out = ProviderFailure
    /\ policies = CreatedPolicies
    /\ policy_chunks = IndexedChunks
    /\ next_id = 4
    /\ n_uploads = 0
    /\ req = [w \in Workers |-> Idle]
    /\ index_log = [p \in PolicyIds |-> <<>>]
    /\ srch = NoSearch
    /\ extr = NoExtraction
    /\ embedding_model = NoModel
    /\ seed = NotSeeded

RecoverExtract ==
    /\ resp = NoResponse
    /\ \E o \in AllOutcomes : extract_facts("c1", o)
    /\ PipelineFrame

RecoverAnalyze ==
    /\ resp = NoResponse
    /\ \E o \in AllOutcomes : analyze_denial("c1", o)
    /\ PipelineFrame

RecoverDraft ==
    /\ resp = NoResponse
    /\ \E o \in AllOutcomes : generate_appeal_draft("generate-draft", "c1", o)
    /\ PipelineFrame

NextRecover ==
    \/ RecoverExtract
    \/ RecoverAnalyze
    \/ RecoverDraft

SpecRecover == InitRecover /\ [][NextRecover]_vars

(***************************************************************************)
(* Policy uploads.  upload_policy_file awaits the policy store, then the   *)
(* two chunk-store calls of index_policy_content; other requests run       *)
(* between the awaits.                                                     *)
(***************************************************************************)
\* the policy ids of the upload requests: a policy of the store, and one not in it
PolicyReqIds == {"p1", "p404"}

\* a request on the policy side leaves the pipeline and the search alone
IndexFrame == UNCHANGED <<cases, documents, resp, llm_calls, llm_out, srch, extr, seed>>

policy_chunk_ids(chunks, policy_id) ==
    {chunks[i].id : i \in {j \in 1..Len(chunks) : chunks[j].policy_id = policy_id}}

\* the last two entries of a log
LastTwo(log) == IF Len(log) > 2 THEN SubSeq(log, Len(log) - 1, Len(log)) ELSE log

\* upload_policy_file: db.policies.find_one, 404 when the policy is not there
upload_find(w, policy_id, content) ==
    /\ req[w].pc = "idle"
    /\ n_uploads < MaxRuns
    /\ n_uploads' = n_uploads + 1
    /\ IF policy_id \notin DOMAIN policies \/ ~policies[policy_id].exists
       THEN req' = [req EXCEPT ![w] = [pc |-> "idle", status |-> 404]]
       ELSE req' = [req EXCEPT ![w] = [pc |-> "update", status |-> 0,
                                        policy_id |-> policy_id,
                                        policy |-> policies[policy_id],
                                        content |-> content]]
    /\ UNCHANGED <<policies, policy_chunks, next_id, index_log, embedding_model>>

\* upload_policy_file: db.policies.update_one({'id': policy_id}, {'$set': {'content': ...}})
upload_update(w) ==
    /\ req[w].pc = "update"
    /\ policies' = IF policies[req[w].policy_id].exists
                   THEN [policies EXCEPT ![req[w].policy_id].content = req[w].content]
                   ELSE policies
    /\ req' = [req EXCEPT ![w].pc = "delete"]
    /\ UNCHANGED <<policy_chunks, next_id, n_uploads, index_log, embedding_model>>

\* index_policy_content: await db.policy_chunks.delete_many
index_delete(w) ==
    /\ req[w].pc = "delete"
    /\ policy_chunks' = delete_chunks(policy_chunks, req[w].policy_id)
    /\ req' = [req EXCEPT ![w].pc = "insert"]
    /\ UNCHANGED <<policies, next_id, n_uploads, index_log, embedding_model>>

\* index_policy_content: the chunking loop and await db.policy_chunks.insert_many,
\* then the return of upload_policy_file
index_insert(w) ==
    /\ req[w].pc = "insert"
    /\ LET policy_id == req[w].policy_id
           chunks == build_chunks(req[w].policy, req[w].content, next_id)
           stored == IF chunks # <<>> THEN policy_chunks \o chunks ELSE policy_chunks
       IN  /\ policy_chunks' = stored
           /\ next_id' = next_id + Len(chunks)
           /\ index_log' =
                  [index_log EXCEPT ![policy_id] =
                      LastTwo(Append(@, [content |-> req[w].content,
                                         ids |-> {chunks[i].id : i \in 1..Len(chunks)},
                                         count |-> Cardinality(
                                             policy_chunk_ids(stored, policy_id))]))]
           /\ embedding_model' =
                  IF chunks # <<>> THEN get_embedding_model(embedding_model)
                  ELSE embedding_model
    /\ req' = [req EXCEPT ![w] = [pc |-> "idle", status |-> 200]]
    /\ UNCHANGED <<policies, n_uploads>>

UploadFind ==
    /\ \E w \in Workers, p \in PolicyReqIds, c \in Contents : upload_find(w, p, c)
    /\ IndexFrame

UploadUpdate == (\E w \in Workers : upload_update(w)) /\ IndexFrame

IndexDelete == (\E w \in Workers : index_delete(w)) /\ IndexFrame

IndexInsert == (\E w \in Workers : index_insert(w)) /\ IndexFrame

NextIndex ==
    \/ UploadFind
    \/ UploadUpdate
    \/ IndexDelete
    \/ IndexInsert

\* SpecIndex: policy uploads of two workers, interleaved at their awaits
SpecIndex == Init /\ [][NextIndex]_vars

\* no upload is in flight
AllIdle == \A w \in Workers : req[w].pc = "idle"

SeqUploadFind == AllIdle /\ UploadFind

\* SpecReindex: policy uploads one after the other, each starting after the
\* one before it has finished
NextReindex ==
    \/ SeqUploadFind
    \/ UploadUpdate
    \/ IndexDelete
    \/ IndexInsert

SpecReindex == Init /\ [][NextReindex]_vars

(***************************************************************************)
(* Properties of the generation stages.                                    *)
(***************************************************************************)
StageOps == {"extract", "analyze", "generate-draft", "regenerate"}

HasDenialLetter(c) ==
    \E i \in 1..Len(documents) :
        documents[i].case_id = c /\ documents[i].type = "denial_letter"

\* the artifact the stage behind route `op` keeps on the case
Artifact(op, case) ==
    CASE op = "extract" -> case.extracted_facts
      [] op = "analyze" -> case.denial_analysis
      [] OTHER -> case.generated_draft

\* the bracket pair the stage behind route `op` looks for
OpenOf(op) == IF op = "analyze" THEN "[" ELSE "{"
CloseOf(op) == IF op = "analyze" THEN "]" ELSE "}"

\* the stage behind the last response was handed a text by the provider
StageGotText ==
    /\ resp.op \in StageOps
    /\ resp.case_id \in DOMAIN cases
    /\ llm_calls = 1
    /\ llm_out.ok

\* C1: a Stage 1 request on a case without a denial-letter document ends 400,
\* calls the provider not at all and leaves the case's extracted_facts (and the
\* rest of the case) as it was.
C1_NoDenialLetterRejected ==
    [][\A c \in DOMAIN cases :
          (~HasDenialLetter(c) /\ \E o \in ProviderOutcomes : extract_facts(c, o))
              => /\ resp'.code = 400
                 /\ llm_calls' = 0
                 /\ cases'[c].extracted_facts = cases[c].extracted_facts
                 /\ cases' = cases]_vars

C1_Witness ==
    /\ resp.op = "extract" /\ resp.case_id = "c1" /\ resp.code = 400
    /\ llm_calls = 0
    /\ documents # <<>>
    /\ TextLen(documents[1].extracted_text) > 0
    /\ ~HasDenialLetter("c1")

\* C2: whatever text the provider returns, Stage 1, 3 or 4 completes: the request
\* ends 200, and the artifact it returns is the one it wrote to the case.
C2_ShapeErrorsRecovered ==
    StageGotText =>
        /\ resp.code = 200
        /\ resp.body = Artifact(resp.op, cases[resp.case_id])
        /\ resp.body # NoDraft

C2_Witness ==
    /\ StageGotText
    /\ resp.op = "analyze" /\ resp.code = 200
    /\ re_search("[", "]", llm_out.text) # NoMatch
    /\ ~json_loads(re_search("[", "]", llm_out.text)).ok
    /\ "items" \in DOMAIN cases["c1"].denial_analysis.missing_docs_checklist

\* Depth-tracked matching: the position of the bracket that closes the one opened
\* before position i at the given depth, 0 when there is none.
RECURSIVE MatchingClose(_, _, _, _, _)
MatchingClose(s, i, depth, open, close) ==
    IF i > Len(s) THEN 0
    ELSE IF s[i] = open THEN MatchingClose(s, i + 1, depth + 1, open, close)
    ELSE IF s[i] = close
         THEN IF depth = 1 THEN i ELSE MatchingClose(s, i + 1, depth - 1, open, close)
    ELSE MatchingClose(s, i + 1, depth, open, close)

\* the span from the first opening bracket to its matching close, <<>> if none
FirstBalancedSpan(s, open, close) ==
    LET i == FirstIndex(s, open)
        j == IF i = 0 THEN 0 ELSE MatchingClose(s, i + 1, 1, open, close)
    IN  IF j = 0 THEN <<>> ELSE SubSeq(s, i, j)

\* the value a stage parsed, as kept in its artifact
ParsedPart(op, artifact) ==
    IF op = "analyze" THEN artifact.missing_docs_checklist ELSE artifact

\* C3: whenever the span from the first opening bracket of the provider's text to
\* its matching close is valid JSON, that value is the stage's artifact, whatever
\* follows the span (object form in Stages 1 and 4, array form in Stage 3).
C3_FirstBalancedSpanIsArtifact ==
    StageGotText =>
        LET span == FirstBalancedSpan(llm_out.text.body, OpenOf(resp.op), CloseOf(resp.op))
        IN  (span # <<>> /\ json_loads(span).ok)
                => /\ resp.code = 200
                   /\ ParsedPart(resp.op, Artifact(resp.op, cases[resp.case_id]))
                          = [json |-> span]

\* the raw provider text a degraded artifact holds, and whether it is marked
IsDegraded(op, artifact) ==
    IF op = "analyze"
    THEN /\ "missing_docs_checklist" \in DOMAIN artifact
         /\ "json" \notin DOMAIN artifact.missing_docs_checklist
    ELSE "json" \notin DOMAIN artifact

RawHeld(op, artifact) ==
    CASE op = "extract" -> artifact.raw_response
      [] op = "analyze" -> artifact.missing_docs_checklist.items[1].notes
      [] OTHER -> artifact.appeal_letter

HasErrorTag(op, artifact) ==
    CASE op = "extract" -> "error" \in DOMAIN artifact
      [] op = "analyze" -> artifact.missing_docs_checklist.items[1].status = "Unknown"
      [] OTHER -> artifact.reviewable = FALSE

\* the code of a stage finds no bracketed span in the text, or fails to parse it
Unparseable(op, text) ==
    LET m == re_search(OpenOf(op), CloseOf(op), text)
    IN  m = NoMatch \/ ~json_loads(m).ok

\* C4: a stage whose provider text has no bracketed span or fails to parse keeps a
\* degraded marker with an error tag, and no degraded artifact kept on a case
\* holds more than the first 500 characters of the raw text.
C4_DegradedArtifactBounded ==
    /\ (StageGotText /\ Unparseable(resp.op, llm_out.text))
           => LET a == Artifact(resp.op, cases[resp.case_id])
              IN  /\ IsDegraded(resp.op, a)
                  /\ HasErrorTag(resp.op, a)
                  /\ RawHeld(resp.op, a) = Slice(llm_out.text, TextLen(RawHeld(resp.op, a)))
    /\ \A c \in DOMAIN cases :
          \A op \in {"extract", "analyze", "generate-draft"} :
              LET a == Artifact(op, cases[c])
              IN  (a # NoDraft /\ IsDegraded(op, a))
                      => TextLen(RawHeld(op, a)) <= RawResponseLimit

\* the excerpt id a JSON value names, 0 when it names none
ExcerptId(v) ==
    CASE v = <<"e1">> -> 1 [] v = <<"e2">> -> 2 [] v = <<"e9">> -> 9 [] OTHER -> 0

\* the entries of generated_draft.citations_used, as excerpt ids
CitationsUsed(draft) ==
    IF "json" \in DOMAIN draft
    THEN LET l == list_get(draft, "citations_used")
         IN  {ExcerptId(l[i]) : i \in 1..Len(l)}
    ELSE {}

\* the excerpt ids of the matches the Stage 4 prompt is built from
PromptExcerptIds(case) ==
    LET ms == Take(case.policy_matches, PromptMatchLimit)
    IN  {ms[i].excerpt_id : i \in 1..Len(ms)}

\* C5: every entry of a persisted generated_draft.citations_used is an excerpt id
\* of the policy_matches the draft's prompt was built from (Stage 4 leaves
\* policy_matches alone, so right after it they are the case's).
C5_CitationsWithinMatches ==
    (resp.op \in {"generate-draft", "regenerate"} /\ resp.code = 200)
        => CitationsUsed(cases[resp.case_id].generated_draft)
               \subseteq PromptExcerptIds(cases[resp.case_id])

(***************************************************************************)
(* Properties of the policy indexer.                                       *)
(***************************************************************************)
\* C6: two indexing runs of one policy with the same content, the second started
\* after the first has finished, leave as many chunks of the policy in the store
\* as the first run left, and these are the chunks the second run built.
C6_ReindexIdempotent ==
    \A p \in PolicyIds :
        (Len(index_log[p]) = 2 /\ index_log[p][1].content = index_log[p][2].content)
            => /\ index_log[p][2].count = index_log[p][1].count
               /\ index_log[p][2].count = Cardinality(index_log[p][2].ids)

C6_Witness ==
    /\ Len(index_log["p1"]) = 2
    /\ index_log["p1"][1].content = index_log["p1"][2].content
    /\ index_log["p1"][2].count = 2
    /\ AllIdle

\* C7: once an indexing run of a policy has completed, the store holds for that
\* policy only chunks that the run completed last has inserted, whatever the
\* interleaving of the uploads.
C7_OnlyLastReindexChunks ==
    \A p \in PolicyIds :
        index_log[p] # <<>>
            => policy_chunk_ids(policy_chunks, p) \subseteq index_log[p][Len(index_log[p])].ids

(***************************************************************************)
(* SpecSearch: search_policies called on a chunk store, for every store of *)
(* up to MaxChunks chunks and for stores of more than ChunkFindLimit       *)
(* chunks.                                                                 *)
(***************************************************************************)
StoredPayers == {<<"a", "b">>, <<"A">>, <<"b">>}

StoredStates == {<<"c">>, <<"d">>}

StoredEmbeddings == {0, 1, 2}

\* a word the encoder maps to embedding e
EmbWord(e) == CASE e = 0 -> "a" [] e = 1 -> "b" [] e = 2 -> "." [] OTHER -> "c"

\* a chunk as index_policy_content stores it, but for its id
ChunkOf(payer, state, e) ==
    Chunk(0, "p1", payer, state, General, 1,
          [words |-> <<EmbWord(e)>>, len |-> HeaderThreshold], e)

ChunkTemplates ==
    {ChunkOf(p, st, e) : p \in StoredPayers, st \in StoredStates, e \in StoredEmbeddings}

\* chunk ids are distinct: the i-th chunk of a store has id i
WithIds(chunks) == [i \in 1..Len(chunks) |-> [chunks[i] EXCEPT !.id = i]]

SmallStores == UNION {[1..n -> ChunkTemplates] : n \in 0..MaxChunks}

\* ChunkFindLimit chunks of one paragraph, then one more chunk
LargeStores ==
    {[i \in 1..(ChunkFindLimit + 1) |->
         IF i <= ChunkFindLimit THEN ChunkOf(<<"a", "b">>, <<"c">>, 2)
                                ELSE ChunkOf(<<"a", "b">>, <<"c">>, e)] :
     e \in StoredEmbeddings}

Stores == {WithIds(st) : st \in SmallStores \cup LargeStores}

Queries == {<<"a">>, <<"b">>}

PayerFilters == {<<>>, <<"a">>, <<"a", ".">>, <<"A", "B">>}

StateFilters == {<<>>, <<"c">>}

TopKs == {1, DefaultTopK, ChunkFindLimit + 1}

InitSearch ==
    /\ cases = [c \in {"c1"} |-> NewCase(<<"a">>, <<"c">>, <<>>)]
    /\ documents = <<>>
    /\ resp = NoResponse
    /\ llm_calls = 0
    /\ llm_out = ProviderFailure
    /\ policies = CreatedPolicies
    /\ policy_chunks \in Stores
    /\ next_id = Len(policy_chunks) + 1
    /\ n_uploads = 0
    /\ req = [w \in Workers |-> Idle]
    /\ index_log = [p \in PolicyIds |-> <<>>]
    /\ srch = NoSearch
    /\ extr = NoExtraction
    /\ embedding_model = NoModel
    /\ seed = NotSeeded

\* one call of search_policies
Search ==
    /\ \E query \in Queries, payer \in PayerFilters, state \in StateFilters, top_k \in TopKs :
          /\ srch' = [called |-> TRUE, query |-> query, payer |-> payer, state |-> state,
                      top_k |-> top_k,
                      out |-> search_policies(policy_chunks, query, payer, state, top_k)]
          /\ embedding_model' = search_model(embedding_model, policy_chunks, payer, state)
    /\ UNCHANGED <<cases, documents, resp, llm_calls, llm_out, policies, policy_chunks,
                   next_id, n_uploads, req, index_log, extr, seed>>

NextSearch == Search

SpecSearch == InitSearch /\ [][NextSearch]_vars

(***************************************************************************)
(* Properties of the retriever.                                            *)
(***************************************************************************)
\* the stored chunks that pass the payer/state filters of the call made
Candidates == find_chunks(policy_chunks, srch.payer, srch.state)

ScoreOf(c) == cosine_similarity(compute_embedding(srch.query), c.embedding)

\* C8: for a non-empty candidate set the list returned is ordered by non-increasing
\* score and its first element has the maximum score among all candidates.
C8_SortedAndTopIsMax ==
    srch.called
        => LET candidates == Candidates
               scores == {ScoreOf(candidates[i]) : i \in 1..Len(candidates)}
           IN  candidates # <<>>
                   => /\ \A i \in 1..(Len(srch.out) - 1) :
                             srch.out[i].score >= srch.out[i + 1].score
                      /\ srch.out # <<>>
                      /\ \A sc \in scores : srch.out[1].score >= sc

\* C9: the list returned has min(k, candidate_count) entries, candidate_count being
\* the number of stored chunks that pass the filters.
C9_LengthIsMinKCandidates ==
    srch.called => Len(srch.out) = Min(srch.top_k, Len(Candidates))

\* s contains f as a case-insensitive literal substring
ContainsLiteral(f, s) ==
    \E i \in 1..(Len(s) + 1) :
        /\ i + Len(f) - 1 <= Len(s)
        /\ \A j \in 1..Len(f) : Lower(f[j]) = Lower(s[i + j - 1])

\* C10: the candidates are exactly the stored chunks whose payer and state contain
\* the filters as case-insensitive literal substrings, and no result comes from a
\* chunk whose payer does not contain the payer filter.
C10_FilterIsLiteralSubstring ==
    srch.called
        => /\ Candidates =
                  SelectSeq(policy_chunks,
                            LAMBDA c : /\ ContainsLiteral(srch.payer, c.payer)
                                       /\ ContainsLiteral(srch.state, c.state))
           /\ \A i \in 1..Len(srch.out) :
                  ContainsLiteral(srch.payer, policy_chunks[srch.out[i].excerpt_id].payer)

(***************************************************************************)
(* SpecQuery: Stage 2 on a case, for every payer, state, procedure-code    *)
(* list and Stage 1 artifact of a small set.                               *)
(***************************************************************************)
\* Stage 1 artifacts: JSON objects as json.loads returned them
FactDicts ==
    {<<"{", "}">>,
     <<"{", "k", "v", "}">>,
     <<"{", "requested_service", "v", "}">>,
     <<"{", "denial_reasons", "[", "]", "}">>,
     <<"{", "denial_reasons", "[", "e1", "]", "}">>,
     <<"{", "denial_reasons", "[", "e1", ",", "e2", ",", "e9", ",", "v", "]", "}">>,
     <<"{", "requested_service", "v", ",", "denial_reasons", "[", "e2", "]", "}">>}

CasePayers == {<<"a">>, <<"b">>, <<"A", "b">>}

CaseStates == {<<"c">>, <<"d">>}

CptCodeLists == {<<>>, <<"v">>, <<"e1", "e2">>}

InitQuery ==
    /\ \E payer \in CasePayers, state \in CaseStates, cpt_codes \in CptCodeLists,
          facts \in FactDicts :
          cases = [c \in {"c1"} |->
                      [NewCase(payer, state, cpt_codes) EXCEPT
                           !.extracted_facts = [json |-> facts]]]
    /\ documents = <<>>
    /\ resp = NoResponse
    /\ llm_calls = 0
    /\ llm_out = ProviderFailure
    /\ policies = CreatedPolicies
    /\ policy_chunks = IndexedChunks
    /\ next_id = 4
    /\ n_uploads = 0
    /\ req = [w \in Workers |-> Idle]
    /\ index_log = [p \in PolicyIds |-> <<>>]
    /\ srch = NoSearch
    /\ extr = NoExtraction
    /\ embedding_model = NoModel
    /\ seed = NotSeeded

NextQuery == MatchPolicies

SpecQuery == InitQuery /\ [][NextQuery]_vars

(***************************************************************************)
(* Properties of the Stage 2 query.                                        *)
(***************************************************************************)
\* the Stage 1 facts of the case hold no requested service and no denial reasons
NoServiceNoReasons(case) ==
    /\ ~Truthy(dict_get(case.extracted_facts, "requested_service", <<>>))
    /\ list_get(case.extracted_facts, "denial_reasons") = <<>>

FallbackQuery(case) == case.payer \o <<" coverage criteria">>

\* C11 as stated: Stage 2 on a case whose facts hold no requested service and no
\* denial reasons builds exactly the query "<payer> coverage criteria".
C11_FallbackQueryWithoutFacts ==
    [][\A c \in DOMAIN cases :
           (match_policies(c) /\ NoServiceNoReasons(cases[c]))
               => srch'.query = FallbackQuery(cases[c])]_vars

\* C11, amended: Stage 2 on a case whose facts hold no requested service and no
\* denial reasons, and which has no procedure codes, builds exactly the query
\* "<payer> coverage criteria".
C11_FallbackQueryWithoutFactsAndCodes ==
    [][\A c \in DOMAIN cases :
           (match_policies(c) /\ NoServiceNoReasons(cases[c]) /\ cases[c].cpt_codes = <<>>)
               => srch'.query = FallbackQuery(cases[c])]_vars

C11_Witness ==
    /\ srch.called
    /\ NoServiceNoReasons(cases["c1"])
    /\ cases["c1"].cpt_codes = <<>>
    /\ cases["c1"].payer = <<"A", "b">>
    /\ srch.query = <<"A", "b", " coverage criteria">>

(***************************************************************************)
(* Text extraction.  The text the extractor builds is a sequence of        *)
(* pieces: what one page's text layer gave, what OCR gave for one page     *)
(* image, or the "\n" appended after each.  A piece has a length and is    *)
(* either all whitespace (ws) or starts and ends with a visible character. *)
(* The libraries (pypdf, pdf2image, pytesseract, PIL) are outside the      *)
(* program: each of their calls either returns or raises, and a file fixes *)
(* which.                                                                  *)
(***************************************************************************)
OcrThreshold == 100

Piece(src, i, len, ws) == [src |-> src, i |-> i, len |-> len, ws |-> ws]

Newline == Piece("nl", 0, 1, TRUE)

\* what a library call on one page does: it raises, or returns a text
Raises == [raise |-> TRUE]

Gives(len, ws) == [raise |-> FALSE, len |-> len, ws |-> ws]

\* len(t)
PiecesLen(t) ==
    LET RECURSIVE sum(_)
        sum(k) == IF k = 0 THEN 0 ELSE t[k].len + sum(k - 1)
    IN  sum(Len(t))

Blank(piece) == piece.ws \/ piece.len = 0

\* t.strip()
Strip(t) ==
    IF \A k \in 1..Len(t) : Blank(t[k]) THEN <<>>
    ELSE LET first == CHOOSE k \in 1..Len(t) :
                          ~Blank(t[k]) /\ \A j \in 1..(k - 1) : Blank(t[j])
             last == CHOOSE k \in 1..Len(t) :
                         ~Blank(t[k]) /\ \A j \in (k + 1)..Len(t) : Blank(t[j])
         IN  SubSeq(t, first, last)

\* the calls of a loop that run: those before the first one that raises
Completed(outs) ==
    IF \E k \in 1..Len(outs) : outs[k].raise
    THEN SubSeq(outs, 1, (CHOOSE k \in 1..Len(outs) :
                              outs[k].raise /\ \A j \in 1..(k - 1) : ~outs[j].raise) - 1)
    ELSE outs

\* text += <page's text> + "\n", for the calls that returned
Appended(src, outs) ==
    LET done == Completed(outs)
        RECURSIVE app(_)
        app(k) == IF k = 0 THEN <<>>
                  ELSE app(k - 1) \o <<Piece(src, k, done[k].len, done[k].ws), Newline>>
    IN  app(Len(done))

AnyRaises(outs) == \E k \in 1..Len(outs) : outs[k].raise

\* convert_from_bytes(file_bytes), then pytesseract.image_to_string on each image:
\* the text after the pass and whether the pass raised
ocr_pass(text, pass) ==
    IF pass.convert_raises
    THEN [text |-> text, raised |-> TRUE]
    ELSE [text |-> text \o Appended("ocr", pass.images), raised |-> AnyRaises(pass.images)]

\* The body of extract_text_from_pdf, with its threshold and with whether the
\* OCR-only fallback sits in a try of its own.  It gives the text returned, whether
\* the call raised, how many times the pages were rasterized, and what the OCR
\* passes appended.
pdf_extraction(file, threshold, fallback_guarded) ==
    LET layer == IF file.reader_raises THEN <<>> ELSE Appended("page", file.pages)
        layer_raised == file.reader_raises \/ AnyRaises(file.pages)
        wants_ocr == ~layer_raised /\ PiecesLen(Strip(layer)) < threshold
        first == IF wants_ocr THEN ocr_pass(layer, file.ocr[1])
                 ELSE [text |-> layer, raised |-> layer_raised]
        second == IF first.raised
                  THEN ocr_pass(first.text, file.ocr[IF wants_ocr THEN 2 ELSE 1])
                  ELSE [text |-> first.text, raised |-> FALSE]
        converts == (IF wants_ocr THEN 1 ELSE 0) + (IF first.raised THEN 1 ELSE 0)
    IN  [text |-> Strip(second.text),
         raised |-> ~fallback_guarded /\ second.raised,
         converts |-> converts,
         ocr_text |-> SubSeq(second.text, Len(layer) + 1, Len(second.text))]

\* an extractor whose OCR-only fallback is not guarded
extract_text_from_pdf_unguarded(file) == pdf_extraction(file, OcrThreshold, FALSE)

\* an extractor that also runs OCR on a text layer of exactly the threshold
extract_text_from_pdf_inclusive(file) == pdf_extraction(file, OcrThreshold + 1, TRUE)

\* extract_text_from_pdf(file_bytes)
extract_text_from_pdf(file) == pdf_extraction(file, OcrThreshold, TRUE)

\* extract_text_from_image(file_bytes): Image.open, then one OCR call
extract_text_from_image(file) ==
    IF file.open_raises \/ file.image.raise
    THEN [text |-> <<>>, raised |-> FALSE, converts |-> 0, ocr_text |-> <<>>]
    ELSE LET t == <<Piece("ocr", 1, file.image.len, file.image.ws)>>
         IN  [text |-> t, raised |-> FALSE, converts |-> 0, ocr_text |-> t]

\* file_bytes.decode('utf-8', errors='ignore'): undecodable bytes are dropped
decode_ignore(file) ==
    LET t == <<Piece("bytes", 1, file.decodable, FALSE)>>
    IN  [text |-> t, raised |-> FALSE, converts |-> 0, ocr_text |-> <<>>]

\* upload_document: the extractor chosen by the file name's ending
extract_text(file) ==
    CASE file.kind = "pdf" -> extract_text_from_pdf(file)
      [] file.kind = "image" -> extract_text_from_image(file)
      [] OTHER -> decode_ignore(file)

(***************************************************************************)
(* SpecExtract: the extractor applied to a file, for every file of up to   *)
(* MaxPages pages and every way its library calls return or raise.         *)
(***************************************************************************)
PageOutcomes ==
    {Raises, Gives(0, FALSE), Gives(49, FALSE), Gives(50, FALSE), Gives(100, FALSE),
     Gives(100, TRUE)}

OcrOutcomes == {Raises, Gives(7, FALSE)}

OcrPasses ==
    {[convert_raises |-> TRUE, images |-> <<>>]}
        \cup {[convert_raises |-> FALSE, images |-> im] :
              im \in UNION {[1..n -> OcrOutcomes] : n \in 0..MaxPages}}

PdfFiles ==
    {[kind |-> "pdf", reader_raises |-> FALSE, pages |-> pg, ocr |-> <<o1, o2>>] :
         pg \in UNION {[1..n -> PageOutcomes] : n \in 0..MaxPages},
         o1 \in OcrPasses, o2 \in OcrPasses}
        \cup {[kind |-> "pdf", reader_raises |-> TRUE, pages |-> <<>>, ocr |-> <<o1, o2>>] :
              o1 \in OcrPasses, o2 \in OcrPasses}

ImageFiles ==
    {[kind |-> "image", open_raises |-> r, image |-> o] :
         r \in BOOLEAN, o \in OcrOutcomes \cup {Gives(0, FALSE)}}

OtherFiles == {[kind |-> "other", decodable |-> n] : n \in {0, 7}}

Files == PdfFiles \cup ImageFiles \cup OtherFiles

InitExtract ==
    /\ cases = [c \in {"c1"} |-> NewCase(<<"a">>, <<"c">>, <<>>)]
    /\ documents = <<>>
    /\ resp = NoResponse
    /\ llm_calls = 0
    /\ llm_out = ProviderFailure
    /\ policies = CreatedPolicies
    /\ policy_chunks = IndexedChunks
    /\ next_id = 4
    /\ n_uploads = 0
    /\ req = [w \in Workers |-> Idle]
    /\ index_log = [p \in PolicyIds |-> <<>>]
    /\ srch = NoSearch
    /\ \E file \in Files : extr = [done |-> FALSE, file |-> file]
    /\ embedding_model = NoModel
    /\ seed = NotSeeded

\* the extraction step of upload_document and of upload_policy_file
ExtractText ==
    /\ extr' = [done |-> TRUE, file |-> extr.file, out |-> extract_text(extr.file)]
    /\ UNCHANGED <<cases, documents, resp, llm_calls, llm_out, policies, policy_chunks,
                   next_id, n_uploads, req, index_log, srch, embedding_model, seed>>

NextExtract == ExtractText

SpecExtract == InitExtract /\ [][NextExtract]_vars

(***************************************************************************)
(* Properties of text extraction.                                          *)
(***************************************************************************)
\* no page of the text layer could be read
NothingRead(file) == file.reader_raises \/ (file.pages # <<>> /\ file.pages[1].raise)

\* the OCR pass gives no page
NothingRecognized(pass) ==
    pass.convert_raises \/ (pass.images # <<>> /\ pass.images[1].raise)

EverythingFails(file) ==
    CASE file.kind = "pdf" -> NothingRead(file) /\ NothingRecognized(file.ocr[1])
      [] file.kind = "image" -> file.open_raises \/ file.image.raise
      [] OTHER -> FALSE

\* C12: for every file and declared kind the extractor returns to its caller,
\* whichever library call raises; when every one fails it returns the empty string.
C12_ExtractionNeverRaises ==
    extr.done
        => /\ ~extr.out.raised
           /\ EverythingFails(extr.file) => extr.out.text = <<>>

C12_Witness ==
    /\ extr.done
    /\ extr.file.kind = "pdf"
    /\ Len(extr.file.pages) = MaxPages
    /\ extr.file.pages[1].raise
    /\ extr.file.ocr[1].convert_raises
    /\ ~extr.out.raised
    /\ extr.out.text = <<>>

\* the text layer of a PDF all of whose pages could be read
TextLayer(file) == Appended("page", file.pages)

LayerRead(file) == file.kind = "pdf" /\ ~file.reader_raises /\ ~AnyRaises(file.pages)

\* C13: a PDF whose text layer trims to at least 100 characters is never rasterized
\* for OCR; one whose text layer trims to fewer than 100 characters always is, and
\* the OCR output of its pages follows the text layer in the result, in page order.
C13_OcrBelowThresholdOnly ==
    (extr.done /\ LayerRead(extr.file))
        => LET file == extr.file
               pass == file.ocr[1]
           IN  IF PiecesLen(Strip(TextLayer(file))) >= OcrThreshold
               THEN /\ extr.out.converts = 0
                    /\ extr.out.ocr_text = <<>>
                    /\ extr.out.text = Strip(TextLayer(file))
               ELSE /\ extr.out.converts >= 1
                    /\ (~pass.convert_raises /\ ~AnyRaises(pass.images))
                           => /\ extr.out.ocr_text =
                                     [k \in 1..(2 * Len(pass.images)) |->
                                         IF k % 2 = 0 THEN Newline
                                         ELSE Piece("ocr", (k + 1) \div 2,
                                                    pass.images[(k + 1) \div 2].len,
                                                    pass.images[(k + 1) \div 2].ws)]
                              /\ extr.out.text = Strip(TextLayer(file) \o extr.out.ocr_text)

C13_Witness ==
    /\ extr.done
    /\ LayerRead(extr.file)
    /\ extr.file.pages = <<Gives(49, FALSE), Gives(49, FALSE)>>
    /\ extr.out.converts = 1
    /\ Len(extr.out.ocr_text) = 2 * MaxPages
    /\ extr.out.ocr_text[1].src = "ocr" /\ extr.out.ocr_text[1].i = 1
    /\ extr.out.ocr_text[3].src = "ocr" /\ extr.out.ocr_text[3].i = 2

(***************************************************************************)
(* Properties of the generation stages under provider failure.             *)
(***************************************************************************)
\* Stage 1 on case c gets as far as its provider call
HasDenialText(c) ==
    TextLen(last_text(case_documents(c), "denial_letter", EmptyText)) > 0

\* a request of Stage 1, 3 or 4 on case c whose provider call fails
StageFails(c) ==
    \/ HasDenialText(c) /\ extract_facts(c, ProviderFailure)
    \/ analyze_denial(c, ProviderFailure)
    \/ generate_appeal_draft("generate-draft", c, ProviderFailure)
    \/ regenerate_draft(c, ProviderFailure)

\* C14: when the provider call of Stage 1, 3 or 4 fails, the request ends with a
\* server fault after exactly one provider invocation and changes no field of the
\* case.
C14_ProviderFailureIsFatal ==
    [][\A c \in DOMAIN cases :
           StageFails(c) => /\ resp'.code = 500
                            /\ llm_calls' = 1
                            /\ cases' = cases]_vars

C14_Witness ==
    /\ resp.op = "extract"
    /\ resp.code = 500
    /\ llm_calls = 1
    /\ ~llm_out.ok
    /\ cases["c1"].extracted_facts = EmptyDict

(***************************************************************************)
(* SpecRace: policy uploads of two workers and Stage 2 retrievals, all     *)
(* interleaved at their awaits.                                            *)
(***************************************************************************)
\* the files uploaded while retrievals run: one body paragraph, alone or under a
\* header
RaceContents == {<<BodyB>>, <<Header, BodyB>>}

RaceUploadFind ==
    /\ \E w \in Workers, c \in RaceContents : upload_find(w, "p1", c)
    /\ IndexFrame

NextRace ==
    \/ RaceUploadFind
    \/ UploadUpdate
    \/ IndexDelete
    \/ IndexInsert
    \/ MatchPolicies

SpecRace == Init /\ [][NextRace]_vars

(***************************************************************************)
(* Properties of the embedding model.                                      *)
(***************************************************************************)
\* C15: across every interleaving of indexing and retrieval requests the process
\* constructs the embedding model at most once, and once the global holds a model
\* every later call leaves that instance in place.
C15_ModelConstructedOnce ==
    /\ [](embedding_model.built <= 1 /\ embedding_model.instance \in {0, 1})
    /\ [][embedding_model.instance # 0 => embedding_model' = embedding_model]_vars

\* an indexing run and a retrieval have both embedded text, with one model built
C15_Witness ==
    /\ embedding_model = [instance |-> 1, built |-> 1]
    /\ srch.called /\ srch.out # <<>>
    /\ index_log["p1"] # <<>>
    /\ index_log["p1"][1].count > 0

(***************************************************************************)
(* Properties of regenerate.                                               *)
(***************************************************************************)
\* what a Stage 4 request that answered `reply` leaves in the case store
AfterStage4(c, reply) ==
    IF reply.code = 200
    THEN [cases EXCEPT ![c].generated_draft = reply.body, ![c].status = "draft_appeal"]
    ELSE cases

\* C16: a regenerate request is a Stage 4 run on the case as it is: it queries no
\* chunk, embeds nothing, leaves policy_matches and extracted_facts alone, makes
\* the one provider call and writes generated_draft and status as Stage 4 does.
C16_RegenerateIsStage4 ==
    [][\A c \in DOMAIN cases, o \in ProviderOutcomes :
           /\ regenerate_draft(c, o)
                  => /\ UNCHANGED <<srch, embedding_model, policy_chunks>>
                     /\ cases'[c].policy_matches = cases[c].policy_matches
                     /\ cases'[c].extracted_facts = cases[c].extracted_facts
                     /\ llm_calls' = 1
                     /\ cases' = AfterStage4(c, resp')
           /\ generate_appeal_draft("generate-draft", c, o)
                  => /\ llm_calls' = 1
                     /\ cases' = AfterStage4(c, resp')]_vars

C16_Witness ==
    /\ resp.op = "regenerate"
    /\ resp.code = 200
    /\ cases["c1"].policy_matches # <<>>
    /\ cases["c1"].extracted_facts # EmptyDict
    /\ cases["c1"].generated_draft = resp.body
    /\ cases["c1"].status = "draft_appeal"

(***************************************************************************)
(* Properties of the Stage 1 precondition.                                 *)
(***************************************************************************)
\* C17: whenever the case has a document of type denial_letter, whatever its
\* extracted text, Stage 1 does not answer with the precondition error and goes on
\* to the generation call.
C17_DenialLetterDocumentSuffices ==
    [][\A c \in DOMAIN cases, o \in ProviderOutcomes :
           (HasDenialLetter(c) /\ extract_facts(c, o))
               => (resp'.code # 400 /\ llm_calls' = 1)]_vars

(***************************************************************************)
(* SpecSeed: POST /seed requests of two workers, interleaved at their      *)
(* awaits.  seed counts the demo records of each collection: users with    *)
(* the demo e-mail, demo policies, and copies of the demo organization, of *)
(* the demo case set and of the demo template set.                         *)
(***************************************************************************)
\* the demo policy set: one policy for each of the two payers
DemoPolicies == 2

SeedFrame ==
    UNCHANGED <<cases, documents, resp, llm_calls, llm_out, policies, policy_chunks,
                next_id, n_uploads, req, index_log, srch, extr>>

\* seed_data: db.users.find_one({'email': 'demo@authpilot.com'}), and the return
\* "Data already seeded" when there is one
seed_find(w) ==
    /\ seed.pc[w] = "idle"
    /\ seed.started < MaxSeeds
    /\ seed' = IF seed.users > 0
               THEN [seed EXCEPT !.started = @ + 1, !.replies = @ + 1]
               ELSE [seed EXCEPT !.started = @ + 1, !.pc[w] = "organization"]
    /\ UNCHANGED embedding_model

\* seed_data: db.organizations.insert_one
seed_organization(w) ==
    /\ seed.pc[w] = "organization"
    /\ seed' = [seed EXCEPT !.organizations = @ + 1, !.pc[w] = "user"]
    /\ UNCHANGED embedding_model

\* seed_data: db.users.insert_one
seed_user(w) ==
    /\ seed.pc[w] = "user"
    /\ seed' = [seed EXCEPT !.users = @ + 1, !.pc[w] = "policy1"]
    /\ UNCHANGED embedding_model

\* seed_data, the loop over the two payers: db.policies.insert_one
seed_policies(w) ==
    /\ seed.pc[w] \in {"policy1", "policy2"}
    /\ seed' = [seed EXCEPT !.policies = @ + 1,
                            !.pc[w] = IF @ = "policy1" THEN "index1" ELSE "index2"]
    /\ UNCHANGED embedding_model

\* seed_data, the loop over the two payers: index_policy_content on the policy's
\* content, which embeds its paragraphs
seed_index(w) ==
    /\ seed.pc[w] \in {"index1", "index2"}
    /\ seed' = [seed EXCEPT !.pc[w] = IF @ = "index1" THEN "policy2" ELSE "cases"]
    /\ embedding_model' = get_embedding_model(embedding_model)

\* seed_data: the loop that inserts the demo cases
seed_cases(w) ==
    /\ seed.pc[w] = "cases"
    /\ seed' = [seed EXCEPT !.cases = @ + 1, !.pc[w] = "templates"]
    /\ UNCHANGED embedding_model

\* seed_data: the loop that inserts the demo templates, and the return
seed_templates(w) ==
    /\ seed.pc[w] = "templates"
    /\ seed' = [seed EXCEPT !.templates = @ + 1, !.pc[w] = "idle", !.replies = @ + 1]
    /\ UNCHANGED embedding_model

SeedFind == (\E w \in Workers : seed_find(w)) /\ SeedFrame

SeedOrganization == (\E w \in Workers : seed_organization(w)) /\ SeedFrame

SeedUser == (\E w \in Workers : seed_user(w)) /\ SeedFrame

SeedPolicies == (\E w \in Workers : seed_policies(w)) /\ SeedFrame

SeedIndex == (\E w \in Workers : seed_index(w)) /\ SeedFrame

SeedCases == (\E w \in Workers : seed_cases(w)) /\ SeedFrame

SeedTemplates == (\E w \in Workers : seed_templates(w)) /\ SeedFrame

NextSeed ==
    \/ SeedFind
    \/ SeedOrganization
    \/ SeedUser
    \/ SeedPolicies
    \/ SeedIndex
    \/ SeedCases
    \/ SeedTemplates

SpecSeed == Init /\ [][NextSeed]_vars

(***************************************************************************)
(* Properties of the seed operation.                                       *)
(***************************************************************************)
NoSeedInFlight == \A w \in Workers : seed.pc[w] = "idle"

\* C18: after any number of seed calls, one after the other or overlapping, the
\* store holds exactly one demo user and one copy of the demo organization,
\* policies, cases and templates.
C18_SeedIdempotent ==
    /\ seed.users <= 1 /\ seed.organizations <= 1 /\ seed.policies <= DemoPolicies
    /\ seed.cases <= 1 /\ seed.templates <= 1
    /\ (NoSeedInFlight /\ seed.replies > 0)
           => /\ seed.users = 1 /\ seed.organizations = 1 /\ seed.policies = DemoPolicies
              /\ seed.cases = 1 /\ seed.templates = 1

(***************************************************************************)
(* Properties of retrieval during a reindex.                               *)
(***************************************************************************)
ExcerptIds(out) == {out[i].excerpt_id : i \in 1..Len(out)}

\* C19: a retrieval reads the chunk store as it is at the moment of its call, also
\* between the delete and the insert of a reindex: its excerpts are chunks the
\* store then holds for the case's payer and state, as many as the store then has
\* (up to top_k).  So a retrieval in that window gets no excerpt of the policy.
C19_RetrievalReadsStoreAsIs ==
    [][\A c \in DOMAIN cases :
           match_policies(c)
               => LET found == find_chunks(policy_chunks, cases[c].payer, cases[c].state)
                      ids == {found[i].id : i \in 1..Len(found)}
                  IN  /\ ExcerptIds(srch'.out) \subseteq ids
                      /\ Len(srch'.out) = Min(DefaultTopK, Len(found))]_vars

\* one upload of p1 ran, from start to end; p1 had chunks before it and has chunks
\* after it; the retrieval made in between got no excerpt of p1
C19_Witness ==
    /\ n_uploads = 1
    /\ AllIdle
    /\ Len(index_log["p1"]) = 1
    /\ index_log["p1"][1].count > 0
    /\ policy_chunk_ids(policy_chunks, "p1") # {}
    /\ policy_chunk_ids(IndexedChunks, "p1") # {}
    /\ srch.called
    /\ \A i \in 1..Len(srch.out) : srch.out[i].policy_id # "p1"

(***************************************************************************)
(* SpecPages: uploads, one after the other, of files of more than          *)
(* ParasPerPage paragraphs, with a header or a body paragraph first and at *)
(* the turn of the page.                                                   *)
(***************************************************************************)
LongContents ==
    {[i \in 1..n |-> IF i \in H THEN Header ELSE BodyB] :
         n \in {ParasPerPage + 1, ParasPerPage + 2},
         H \in SUBSET {1, ParasPerPage + 1}}

UploadLongFind ==
    /\ AllIdle
    /\ \E w \in Workers, c \in LongContents : upload_find(w, "p1", c)
    /\ IndexFrame

NextPages ==
    \/ UploadLongFind
    \/ UploadUpdate
    \/ IndexDelete
    \/ IndexInsert

SpecPages == Init /\ [][NextPages]_vars

(***************************************************************************)
(* Properties of the page estimate.                                        *)
(***************************************************************************)
\* the positions (from 1) of the paragraphs of content that become chunks
BodyPositions(content) ==
    LET RECURSIVE from(_)
        from(i) == IF i > Len(content) THEN <<>>
                   ELSE (IF content[i].slen < HeaderThreshold THEN <<>> ELSE <<i>>)
                            \o from(i + 1)
    IN  from(1)

\* C20: the chunk built from the paragraph at 0-based position i of the split
\* carries page 1 + floor(i / 10), header paragraphs counted, for every content.
C20_PageIsPositionOverTen ==
    \A p \in PolicyIds :
        (AllIdle /\ index_log[p] # <<>>)
            => LET run == index_log[p][Len(index_log[p])]
                   positions == BodyPositions(run.content)
                   chunks == SelectSeq(policy_chunks,
                                       LAMBDA c : c.policy_id = p /\ c.id \in run.ids)
               IN  /\ Len(chunks) = Len(positions)
                   /\ \A k \in 1..Len(chunks) :
                          chunks[k].page = 1 + ((positions[k] - 1) \div ParasPerPage)

(***************************************************************************)
(* SpecSections: one upload of a file, for every file of up to             *)
(* MaxParas + 1 paragraphs that are a header, another header, a paragraph  *)
(* of whitespace or a body paragraph.                                      *)
(***************************************************************************)
HeaderB == Para(<<"B">>, HeaderThreshold + 10, 10)

Whitespace == Para(<<>>, 2, 0)

SectionParas == {Header, HeaderB, Whitespace, BodyB}

SectionContents == UNION {[1..n -> SectionParas] : n \in 1..(MaxParas + 1)}

FirstUploadFind ==
    /\ n_uploads = 0
    /\ \E w \in Workers, c \in SectionContents : upload_find(w, "p1", c)
    /\ IndexFrame

NextSections ==
    \/ FirstUploadFind
    \/ UploadUpdate
    \/ IndexDelete
    \/ IndexInsert

SpecSections == Init /\ [][NextSections]_vars

(***************************************************************************)
(* Properties of the section labels.                                       *)
(***************************************************************************)
IsShort(para) == para.slen < HeaderThreshold

\* the label in force at position i of content: the trimmed text of the nearest
\* non-empty short paragraph before i, the initial label when there is none
RECURSIVE LabelAt(_, _)
LabelAt(content, i) ==
    IF i <= 1 THEN General
    ELSE IF IsShort(content[i - 1]) /\ content[i - 1].slen > 0
         THEN [words |-> content[i - 1].words, len |-> content[i - 1].slen]
         ELSE LabelAt(content, i - 1)

\* C21: no paragraph that trims to fewer than 50 characters is stored as a chunk;
\* every stored chunk carries as section the trimmed text of the nearest preceding
\* non-empty short paragraph, or the initial label, and a short paragraph that
\* trims to nothing leaves the label as it was.
C21_SectionIsNearestHeader ==
    \A p \in PolicyIds :
        (AllIdle /\ index_log[p] # <<>>)
            => LET run == index_log[p][Len(index_log[p])]
                   positions == BodyPositions(run.content)
                   chunks == SelectSeq(policy_chunks,
                                       LAMBDA c : c.policy_id = p /\ c.id \in run.ids)
               IN  /\ Len(chunks) = Len(positions)
                   /\ \A k \in 1..Len(chunks) :
                          /\ chunks[k].text.len >= HeaderThreshold
                          /\ chunks[k].section = LabelAt(run.content, positions[k])

C21_Witness ==
    /\ AllIdle
    /\ Len(index_log["p1"]) = 1
    /\ index_log["p1"][1].content = <<HeaderB, Whitespace, BodyB>>
    /\ \E i \in 1..Len(policy_chunks) :
           /\ policy_chunks[i].policy_id = "p1"
           /\ policy_chunks[i].section = [words |-> <<"B">>, len |-> 10]

(***************************************************************************)
(* Properties of the artifacts and the status of a case.                   *)
(***************************************************************************)
Artifacts == {"extracted_facts", "policy_matches", "denial_analysis", "generated_draft"}

\* the artifacts in `fields` are the same on the case before and after the step
Kept(c, fields) ==
    /\ "extracted_facts" \in fields => cases'[c].extracted_facts = cases[c].extracted_facts
    /\ "policy_matches" \in fields => cases'[c].policy_matches = cases[c].policy_matches
    /\ "denial_analysis" \in fields => cases'[c].denial_analysis = cases[c].denial_analysis
    /\ "generated_draft" \in fields => cases'[c].generated_draft = cases[c].generated_draft

Completed200(op) == resp'.op = op /\ resp'.code = 200

\* C22: a stage run leaves the three artifacts of the other stages as they were,
\* and a completed run leaves in its own artifact the one result it returns,
\* whatever the field held before.
C22_StageReplacesOwnArtifactOnly ==
    [][\A c \in DOMAIN cases :
          /\ (\E o \in ProviderOutcomes : extract_facts(c, o))
                 => /\ Kept(c, Artifacts \ {"extracted_facts"})
                    /\ Completed200("extract") => cases'[c].extracted_facts = resp'.body
          /\ match_policies(c)
                 => /\ Kept(c, Artifacts \ {"policy_matches"})
                    /\ Completed200("match-policies")
                           => cases'[c].policy_matches = resp'.body.policy_matches
          /\ (\E o \in ProviderOutcomes : analyze_denial(c, o))
                 => /\ Kept(c, Artifacts \ {"denial_analysis"})
                    /\ Completed200("analyze") => cases'[c].denial_analysis = resp'.body
          /\ (\E o \in ProviderOutcomes : generate_appeal_draft("generate-draft", c, o))
                 => /\ Kept(c, Artifacts \ {"generated_draft"})
                    /\ Completed200("generate-draft")
                           => cases'[c].generated_draft = resp'.body]_vars

\* a second completed Stage 3 run on a case that holds all four artifacts
C22_Witness ==
    /\ resp.op = "analyze" /\ resp.code = 200 /\ resp.case_id = "c1"
    /\ cases["c1"].denial_analysis = resp.body
    /\ cases["c1"].generated_draft # NoDraft
    /\ cases["c1"].policy_matches # <<>>
    /\ cases["c1"].extracted_facts # EmptyDict

(***************************************************************************)
(* SpecStatus: the pipeline requests and the case updates on a case that   *)
(* has its denial letter.                                                  *)
(***************************************************************************)
Statuses == {"new_denial", "draft_appeal", "submitted", "won", "lost"}

\* the bodies of the update requests: no field, or a status
NoFields == [k \in {} |-> "none"]

StatusUpdates == {NoFields} \cup {[status |-> v] : v \in Statuses}

UpdateCase ==
    /\ \E c \in CaseIds, d \in StatusUpdates : update_case(c, d)
    /\ PipelineFrame

NextStatus ==
    \/ UpdateCase
    \/ ExtractFacts
    \/ MatchPolicies
    \/ AnalyzeDenial
    \/ GenerateAppealDraft
    \/ RegenerateDraft

SpecStatus == InitRecover /\ [][NextStatus]_vars

\* C23: a Stage 4 or regenerate run that completes sets the status of the case to
\* draft_appeal from any status, with a parsed draft and with a fallback draft; a
\* Stage 4 run that fails, and every run of Stages 1 to 3, leaves the status as
\* it was.
C23_OnlyCompletedStage4SetsStatus ==
    [][\A c \in DOMAIN cases :
          /\ \A op \in {"generate-draft", "regenerate"} :
                 (\E o \in ProviderOutcomes : generate_appeal_draft(op, c, o))
                     => cases'[c].status =
                            IF resp'.code = 200 THEN "draft_appeal" ELSE cases[c].status
          /\ (\/ \E o \in ProviderOutcomes : extract_facts(c, o)
              \/ match_policies(c)
              \/ \E o \in ProviderOutcomes : analyze_denial(c, o))
                 => cases'[c].status = cases[c].status]_vars

\* a fallback draft was stored by a completed Stage 4 run and the status is
\* draft_appeal
C23_Witness ==
    /\ resp.op = "generate-draft" /\ resp.code = 200 /\ resp.case_id = "c1"
    /\ "reviewable" \in DOMAIN resp.body
    /\ cases["c1"].generated_draft = resp.body
    /\ cases["c1"].status = "draft_appeal"
    /\ cases["c1"].denial_analysis # EmptyDict

(***************************************************************************)
(* SpecProgress: the pipeline requests and mark-reviewed on a new case.    *)
(***************************************************************************)
MarkReviewed ==
    /\ \E c \in CaseIds : mark_reviewed(c)
    /\ PipelineFrame

NextProgress ==
    \/ UploadDocument
    \/ ExtractFacts
    \/ MatchPolicies
    \/ AnalyzeDenial
    \/ GenerateAppealDraft
    \/ MarkReviewed

SpecProgress == Init /\ [][NextProgress]_vars

\* What the stores keep of the progress of case c.  Stage 1 completes only with a
\* denial letter that has text, and documents are never removed; only a completed
\* Stage 2 run records a retrieval; only a completed Stage 3 run writes
\* denial_analysis and only a completed Stage 4 run writes generated_draft, and
\* neither field is ever cleared.
Stage1CanHaveCompleted(c) == HasDenialText(c)

Stage2HasCompleted == srch.called

Stage3HasCompleted(c) == cases[c].denial_analysis # EmptyDict

HasGeneratedDraft(c) == cases[c].generated_draft # NoDraft

\* C24: a request that completed on a case found it in the state its stage
\* requires: Stage 2 after a completed Stage 1, Stage 3 after a completed Stage 2,
\* Stage 4 after a completed Stage 3, mark-reviewed on a case with a generated
\* draft.
C24_StagesCompleteInOrder ==
    (resp.code = 200 /\ resp.case_id \in DOMAIN cases)
        => /\ resp.op = "match-policies" => Stage1CanHaveCompleted(resp.case_id)
           /\ resp.op = "analyze" => Stage2HasCompleted
           /\ resp.op = "generate-draft" => Stage3HasCompleted(resp.case_id)
           /\ resp.op = "mark-reviewed" => HasGeneratedDraft(resp.case_id)

(***************************************************************************)
(* SpecDraftRace: Stage 4 as the steps between its awaits.  The handler    *)
(* awaits db.cases.find_one, builds the prompt from the case it found,     *)
(* awaits the provider and then awaits db.cases.update_one; Stage 1,       *)
(* Stage 2 and case updates on the same case run between the awaits.       *)
(***************************************************************************)
DraftFrame ==
    UNCHANGED <<documents, policies, policy_chunks, next_id, n_uploads, index_log, srch,
                extr, embedding_model, seed>>

\* generate_appeal_draft up to the provider call: the case is found and the
\* prompt is built from its extracted_facts and policy_matches
draft_find(w, op, case_id) ==
    /\ req[w].pc = "idle"
    /\ IF case_id \notin DOMAIN cases
       THEN /\ resp' = Reply(op, case_id, 404, NotFound)
            /\ llm_calls' = 0 /\ llm_out' = ProviderFailure
            /\ UNCHANGED <<cases, req>>
       ELSE /\ req' = [req EXCEPT ![w] =
                          [pc |-> "call_llm", status |-> 0, op |-> op, case_id |-> case_id,
                           extracted_facts |-> cases[case_id].extracted_facts,
                           policy_matches |-> cases[case_id].policy_matches]]
            /\ UNCHANGED <<cases, resp, llm_calls, llm_out>>

\* generate_appeal_draft from the provider's answer on: parse, update_one, return
draft_write(w, outcome) ==
    /\ req[w].pc = "call_llm"
    /\ req' = [req EXCEPT ![w] = Idle]
    /\ llm_calls' = 1 /\ llm_out' = outcome
    /\ LET response == call_llm(outcome)
           parsed == parse_draft(response.value)
           case_id == req[w].case_id
       IN  IF response.raised
           THEN /\ resp' = Reply(req[w].op, case_id, 500, response.value)
                /\ UNCHANGED cases
           ELSE /\ cases' = [cases EXCEPT ![case_id].generated_draft = parsed.value,
                                          ![case_id].status = "draft_appeal"]
                /\ resp' = Reply(req[w].op, case_id, 200, parsed.value)

\* the bodies of the update requests that replace the facts
FactUpdates == {[extracted_facts |-> [json |-> <<"{", "k", "v", "}">>]]}

DraftFind ==
    /\ \E w \in Workers, op \in {"generate-draft", "regenerate"}, c \in CaseIds :
           draft_find(w, op, c)
    /\ DraftFrame

\* the provider's outcomes in the race: one JSON object, or a failure
RaceOutcomes ==
    {[ok |-> TRUE, text |-> Text(0, <<"{", "citations_used", "[", "e1", ",", "e9", "]", "}">>)],
     ProviderFailure}

DraftWrite ==
    /\ \E w \in Workers, o \in RaceOutcomes : draft_write(w, o)
    /\ DraftFrame

RaceExtractFacts ==
    /\ \E o \in RaceOutcomes : extract_facts("c1", o)
    /\ PipelineFrame

UpdateFacts ==
    /\ \E c \in CaseIds, d \in FactUpdates : update_case(c, d)
    /\ PipelineFrame

NextDraftRace ==
    \/ DraftFind
    \/ DraftWrite
    \/ RaceExtractFacts
    \/ MatchPolicies
    \/ UpdateFacts

SpecDraftRace == InitRecover /\ [][NextDraftRace]_vars

\* C25: when a Stage 4 or regenerate run writes its draft, the extracted_facts
\* and policy_matches stored on the case are the ones it read for its prompt.
C25_DraftWrittenOverFactsItRead ==
    [][\A w \in Workers :
          ((\E o \in ProviderOutcomes : draft_write(w, o)) /\ resp'.code = 200)
              => /\ cases[req[w].case_id].extracted_facts = req[w].extracted_facts
                 /\ cases[req[w].case_id].policy_matches = req[w].policy_matches]_vars

(***************************************************************************)
(* SpecPolicyRace: policies of two organizations, uploads of a file for    *)
(* policy p1 and delete-policy requests of both organizations.             *)
(* delete_policy awaits db.policies.delete_one and then                    *)
(* db.policy_chunks.delete_many; other requests run between the awaits.    *)
(***************************************************************************)
Organizations == {"org1", "org2"}

\* create_policy: the policy document carries the organization of its creator
Owned(policy, organization_id) ==
    [k \in DOMAIN policy \cup {"organization_id"} |->
        IF k = "organization_id" THEN organization_id ELSE policy[k]]

\* p1 was created by a user of org1, p2 by a user of org2
OwnedPolicies ==
    [p \in PolicyIds |-> Owned(CreatedPolicies[p], IF p = "p1" THEN "org1" ELSE "org2")]

\* delete_policy: db.policies.delete_one({'id': policy_id, 'organization_id': ...})
delete_policy_one(w, policy_id, organization_id) ==
    /\ req[w].pc = "idle"
    /\ LET deleted == /\ policy_id \in DOMAIN policies
                      /\ policies[policy_id].exists
                      /\ policies[policy_id].organization_id = organization_id
       IN  /\ policies' = IF deleted THEN [policies EXCEPT ![policy_id].exists = FALSE]
                          ELSE policies
           /\ req' = [req EXCEPT ![w] = [pc |-> "delete_many", status |-> 0,
                                          policy_id |-> policy_id,
                                          deleted_count |-> IF deleted THEN 1 ELSE 0]]
    /\ UNCHANGED <<policy_chunks, next_id, n_uploads, index_log, embedding_model>>

\* delete_policy: db.policy_chunks.delete_many({'policy_id': policy_id}), then the
\* test of deleted_count and the reply
delete_policy_many(w) ==
    /\ req[w].pc = "delete_many"
    /\ policy_chunks' = delete_chunks(policy_chunks, req[w].policy_id)
    /\ req' = [req EXCEPT ![w] = [pc |-> "idle",
                                   status |-> IF req[w].deleted_count = 0 THEN 404 ELSE 200]]
    /\ UNCHANGED <<policies, next_id, n_uploads, index_log, embedding_model>>

InitPolicyRace ==
    /\ cases = [c \in {"c1"} |-> NewCase(<<"a">>, <<"c">>, <<>>)]
    /\ documents = <<>>
    /\ resp = NoResponse
    /\ llm_calls = 0
    /\ llm_out = ProviderFailure
    /\ policies = OwnedPolicies
    /\ policy_chunks = IndexedChunks
    /\ next_id = 4
    /\ n_uploads = 0
    /\ req = [w \in Workers |-> Idle]
    /\ index_log = [p \in PolicyIds |-> <<>>]
    /\ srch = NoSearch
    /\ extr = NoExtraction
    /\ embedding_model = NoModel
    /\ seed = NotSeeded

DeletePolicyOne ==
    /\ \E w \in Workers, p \in PolicyIds \cup PolicyReqIds, o \in Organizations :
           delete_policy_one(w, p, o)
    /\ IndexFrame

DeletePolicyMany ==
    /\ \E w \in Workers : delete_policy_many(w)
    /\ IndexFrame

NextPolicyRace ==
    \/ RaceUploadFind
    \/ UploadUpdate
    \/ IndexDelete
    \/ IndexInsert
    \/ DeletePolicyOne
    \/ DeletePolicyMany

SpecPolicyRace == InitPolicyRace /\ [][NextPolicyRace]_vars

\* C26: a delete-policy request that ends 404 "Policy not found" leaves the chunk
\* store as it was.
C26_NotFoundDeleteKeepsChunks ==
    [][\A w \in Workers :
          (delete_policy_many(w) /\ req'[w].status = 404)
              => policy_chunks' = policy_chunks]_vars

\* C27: when no policy request is in progress, every chunk of the chunk store
\* belongs to a policy that is in the policy store.
C27_NoChunksOfDeletedPolicy ==
    AllIdle =>
        \A i \in 1..Len(policy_chunks) :
            /\ policy_chunks[i].policy_id \in DOMAIN policies
            /\ policies[policy_chunks[i].policy_id].exists

(***************************************************************************)
(* SpecReindexFail: policy uploads one after the other, in which the       *)
(* embedding computation or the insert of index_policy_content may raise.  *)
(***************************************************************************)
\* index_policy_content: compute_embedding or insert_many raises after the
\* delete_many; the exception leaves upload_policy_file and the request ends 500
index_fail(w) ==
    /\ req[w].pc = "insert"
    /\ build_chunks(req[w].policy, req[w].content, next_id) # <<>>
    /\ embedding_model' \in {embedding_model, get_embedding_model(embedding_model)}
    /\ req' = [req EXCEPT ![w] = [pc |-> "idle", status |-> 500]]
    /\ UNCHANGED <<policies, policy_chunks, next_id, n_uploads, index_log>>

IndexFail ==
    /\ \E w \in Workers : index_fail(w)
    /\ IndexFrame

NextReindexFail ==
    \/ SeqUploadFind
    \/ UploadUpdate
    \/ IndexDelete
    \/ IndexInsert
    \/ IndexFail

SpecReindexFail == Init /\ [][NextReindexFail]_vars

\* the chunks the policy had when its last completed indexing returned
PriorChunkIds(policy_id) ==
    IF index_log[policy_id] = <<>> THEN policy_chunk_ids(IndexedChunks, policy_id)
    ELSE index_log[policy_id][Len(index_log[policy_id])].ids

\* C28: when a reindex fails, the chunks of the policy in the chunk store are all
\* the chunks it had before the reindex or all the chunks of the new content.
C28_FailedReindexKeepsChunks ==
    [][\A w \in Workers :
          index_fail(w)
              => LET new == build_chunks(req[w].policy, req[w].content, next_id)
                 IN  policy_chunk_ids(policy_chunks', req[w].policy_id)
                         \in {PriorChunkIds(req[w].policy_id),
                              {new[i].id : i \in 1..Len(new)}}]_vars

(***************************************************************************)
(* SpecTenants: a case of org1 whose payer filter admits the chunks of a   *)
(* policy of org1 and of a policy of org2; Stage 2 runs on the case while  *)
(* the organizations delete policies.                                      *)
(***************************************************************************)
InitTenants ==
    /\ cases = [c \in {"c1"} |-> Owned(NewCase(<<"b">>, <<"c">>, <<>>), "org1")]
    /\ documents = <<>>
    /\ resp = NoResponse
    /\ llm_calls = 0
    /\ llm_out = ProviderFailure
    /\ policies = OwnedPolicies
    /\ policy_chunks = IndexedChunks
    /\ next_id = 4
    /\ n_uploads = 0
    /\ req = [w \in Workers |-> Idle]
    /\ index_log = [p \in PolicyIds |-> <<>>]
    /\ srch = NoSearch
    /\ extr = NoExtraction
    /\ embedding_model = NoModel
    /\ seed = NotSeeded

NextTenants ==
    \/ MatchPolicies
    \/ DeletePolicyOne
    \/ DeletePolicyMany

SpecTenants == InitTenants /\ [][NextTenants]_vars

\* the chunks of the policies that the organization created
OwnChunks(chunks, organization_id) ==
    SelectSeq(chunks, LAMBDA c : OwnedPolicies[c.policy_id].organization_id = organization_id)

\* C29: the matches a Stage 2 run stores are excerpts of policies of the case's
\* organization, and they are the matches the run returns over the chunks of that
\* organization alone, whatever the other organizations have indexed.
C29_MatchesOfOwnOrganizationOnly ==
    [][\A c \in DOMAIN cases :
          match_policies(c)
              => LET case == cases[c]
                     matches == cases'[c].policy_matches
                 IN  /\ \A i \in 1..Len(matches) :
                            OwnedPolicies[matches[i].policy_id].organization_id
                                = case.organization_id
                     /\ matches = search_policies(
                                      OwnChunks(policy_chunks, case.organization_id),
                                      search_query(case), case.payer, case.state,
                                      DefaultTopK)]_vars
====
